---------------------------- MODULE Spec2Model ----------------------------
(***************************************************************************)
(* A model of TextStatistics.js: the text normaliser clean_text, the       *)
(* counters built on it, and the syllable estimator syllable_count.        *)
(*                                                                         *)
(* Strings are sequences of one-character strings.  The regular            *)
(* expressions of the source are kept as data (the definitions re_...),    *)
(* and are run by a small backtracking matcher (Ends) that returns the     *)
(* possible ends of a match in the order a backtracking engine tries       *)
(* them, so that greedy quantifiers, alternation order and anchors behave  *)
(* as they do in the JavaScript runtime.                                   *)
(***************************************************************************)
EXTENDS Integers, Sequences, FiniteSets, TLC

(***************************************************************************)
(* Characters.                                                             *)
(***************************************************************************)
Upper == <<"A","B","C","D","E","F","G","H","I","J","K","L","M",
           "N","O","P","Q","R","S","T","U","V","W","X","Y","Z">>
Lower == <<"a","b","c","d","e","f","g","h","i","j","k","l","m",
           "n","o","p","q","r","s","t","u","v","w","x","y","z">>

UpperSet == {Upper[k] : k \in 1..Len(Upper)}
LowerSet == {Lower[k] : k \in 1..Len(Lower)}

\* \s of the regular expressions: space, tab, line feed, carriage return.
WhiteSpace == {" ", "\t", "\n", "\r"}

\* String.prototype.toLowerCase on one character.
ToLowerChar(c) ==
  IF c \in UpperSet THEN Lower[CHOOSE k \in 1..Len(Upper) : Upper[k] = c] ELSE c

\* String.prototype.toUpperCase on one character.
ToUpperChar(c) ==
  IF c \in LowerSet THEN Upper[CHOOSE k \in 1..Len(Lower) : Lower[k] = c] ELSE c

toLowerCase(s) == [k \in 1..Len(s) |-> ToLowerChar(s[k])]

toUpperCase(s) == [k \in 1..Len(s) |-> ToUpperChar(s[k])]

RECURSIVE Concat(_)
Concat(ss) == IF ss = <<>> THEN <<>> ELSE Head(ss) \o Concat(Tail(ss))

(***************************************************************************)
(* Regular expressions as data, and the matcher.                           *)
(***************************************************************************)
In(cs)    == [t |-> "set", neg |-> FALSE, cs |-> cs]
NotIn(cs) == [t |-> "set", neg |-> TRUE, cs |-> cs]
Ch(c)     == In({c})
AnyChar   == NotIn({"\n", "\r"})
Bol       == [t |-> "bol"]
Eol       == [t |-> "eol"]
Cat(rs)   == [t |-> "cat", rs |-> rs]
Alt(rs)   == [t |-> "alt", rs |-> rs]
\* r{lo,hi}, greedy; hi = -1 stands for no upper limit.
Rep(r, lo, hi) == [t |-> "rep", r |-> r, lo |-> lo, hi |-> hi]
Opt(r)    == Rep(r, 0, 1)
Plus(r)   == Rep(r, 1, -1)
Star(r)   == Rep(r, 0, -1)
\* ([cs])\1 : a captured character of the class, then the same character.
Twice(r)  == [t |-> "twice", r |-> r]
\* A literal string.
Str(s)    == Cat([k \in 1..Len(s) |-> Ch(s[k])])

Dec(n) == IF n > 0 THEN n - 1 ELSE n

\* The ends (positions after the last matched character) of the matches of r
\* in s that start at position i, in the order backtracking finds them.
RECURSIVE Ends(_, _, _)
RECURSIVE EndsCat(_, _, _, _)
RECURSIVE EndsAlt(_, _, _, _)
RECURSIVE EndsEach(_, _, _, _)
Ends(r, s, i) ==
  CASE r.t = "set" ->
         IF i <= Len(s) /\ ((s[i] \in r.cs) # r.neg) THEN <<i + 1>> ELSE <<>>
    [] r.t = "bol" -> IF i = 1 THEN <<i>> ELSE <<>>
    [] r.t = "eol" -> IF i = Len(s) + 1 THEN <<i>> ELSE <<>>
    [] r.t = "cat" -> EndsCat(r.rs, 1, s, <<i>>)
    [] r.t = "alt" -> EndsAlt(r.rs, 1, s, i)
    [] r.t = "twice" ->
         IF /\ Ends(r.r, s, i) # <<>>
            /\ i + 1 <= Len(s)
            /\ s[i + 1] = s[i]
         THEN <<i + 2>> ELSE <<>>
    [] r.t = "rep" ->
         (IF r.hi = 0 THEN <<>>
          ELSE EndsEach(Rep(r.r, Dec(r.lo), Dec(r.hi)), s,
                        SelectSeq(Ends(r.r, s, i), LAMBDA e : e > i), 1))
         \o (IF r.lo = 0 THEN <<i>> ELSE <<>>)

\* The ends of rs[k], rs[k+1], ... matched one after the other from each of
\* the positions in from.
EndsCat(rs, k, s, from) ==
  IF k > Len(rs) THEN from
  ELSE EndsCat(rs, k + 1, s, EndsEach(rs[k], s, from, 1))

EndsAlt(rs, k, s, i) ==
  IF k > Len(rs) THEN <<>> ELSE Ends(rs[k], s, i) \o EndsAlt(rs, k + 1, s, i)

\* The ends of r from from[k], then from from[k+1], ...
EndsEach(r, s, from, k) ==
  IF k > Len(from) THEN <<>>
  ELSE Ends(r, s, from[k]) \o EndsEach(r, s, from, k + 1)

\* The end of the match the engine reports at position i, or 0 when r does
\* not match there.
MatchEnd(r, s, i) ==
  LET es == Ends(r, s, i) IN IF es = <<>> THEN 0 ELSE es[1]

\* RegExp.prototype.test on a fresh regular expression (lastIndex = 0).
Test(r, s) == \E i \in 1..(Len(s) + 1) : MatchEnd(r, s, i) # 0

\* String.prototype.replace(/r/g, rep): every match, left to right.
RECURSIVE ReplaceFrom(_, _, _, _)
ReplaceFrom(r, s, rep, i) ==
  IF i > Len(s) + 1 THEN <<>>
  ELSE LET e == MatchEnd(r, s, i) IN
       IF e = 0 THEN
         IF i > Len(s) THEN <<>> ELSE <<s[i]>> \o ReplaceFrom(r, s, rep, i + 1)
       ELSE IF e = i THEN
         rep \o (IF i > Len(s) THEN <<>>
                 ELSE <<s[i]>> \o ReplaceFrom(r, s, rep, i + 1))
       ELSE rep \o (IF e > Len(s) THEN <<>> ELSE ReplaceFrom(r, s, rep, e))

ReplaceAll(r, s, rep) == ReplaceFrom(r, s, rep, 1)

\* The position of the first occurrence of the string pat in s, or 0.
IndexOf(s, pat) ==
  LET hits == {i \in 1..(Len(s) - Len(pat) + 1) :
                 SubSeq(s, i, i + Len(pat) - 1) = pat}
  IN IF hits = {} THEN 0 ELSE CHOOSE i \in hits : \A j \in hits : i <= j

\* String.prototype.replace(pat, rep) with a string pattern: the first
\* occurrence only.
ReplaceFirstString(s, pat, rep) ==
  LET i == IndexOf(s, pat) IN
  IF i = 0 THEN s
  ELSE SubSeq(s, 1, i - 1) \o rep \o SubSeq(s, i + Len(pat), Len(s))


(***************************************************************************)
(* clean_text.                                                             *)
(***************************************************************************)
arrFullStopTags ==
  << <<"l","i">>, <<"p">>, <<"h","1">>, <<"h","2">>, <<"h","3">>,
     <<"h","4">>, <<"h","5">>, <<"h","6">>, <<"d","d">> >>

\* /(<([^>]+)>)/ig
objTags == Cat(<<Ch("<"), Plus(NotIn({">"})), Ch(">")>>)

\* /[,:;()-]/g
re_Separators == In({",", ":", ";", "(", ")", "-"})

\* Terminators unified without '!' and '?'.
re_OnlyFullStops == In({"."})

\* /[\.!?]/g
re_Terminators == In({".", "!", "?"})

\* /(?:(?:^|\n)\s+|\s+(?:$|\n))/g
re_Trim ==
  Alt(<<Cat(<<Alt(<<Bol, Ch("\n")>>), Plus(In(WhiteSpace))>>),
        Cat(<<Plus(In(WhiteSpace)), Alt(<<Eol, Ch("\n")>>)>>)>>)

\* /\s+/g
re_Spaces == Plus(In(WhiteSpace))

\* /[ ]*(\n|\r\n|\r)[ ]*/g
re_NewLines ==
  Cat(<<Star(Ch(" ")),
        Alt(<<Ch("\n"), Str(<<"\r", "\n">>), Ch("\r")>>),
        Star(Ch(" "))>>)

\* Duplicated terminators looked for as a terminator and the spaces after it.
re_TerminatorAndSpaces == Cat(<<Ch("."), Plus(Ch(" "))>>)

\* /([\.])[\. ]+/g
re_DuplicateTerminators == Cat(<<Ch("."), Plus(In({".", " "}))>>)

\* /[ ]*([\.])/g
re_PadTerminators == Cat(<<Star(Ch(" ")), Ch(".")>>)

\* /[ ]+/g
re_MultipleSpaces == Plus(Ch(" "))

\* strText.replace('</' + tag + '>', '.'): a string pattern, so only the
\* first occurrence of the closing tag is replaced.
ReplaceFullStopTag(s, tag) ==
  ReplaceFirstString(s, <<"<", "/">> \o tag \o <<">">>, <<".">>)

\* The for-in loop over arrFullStopTags, from tag k on.
RECURSIVE ReplaceFullStopTags(_, _)
ReplaceFullStopTags(s, k) ==
  IF k > Len(arrFullStopTags) THEN s
  ELSE ReplaceFullStopTags(ReplaceFullStopTag(s, arrFullStopTags[k]), k + 1)

\* .replace(/(?:(?:^|\n)\s+|\s+(?:$|\n))/g,'').replace(/\s+/g,' ')
TrimAndCollapse(s) == ReplaceAll(re_Spaces, ReplaceAll(re_Trim, s, <<>>), <<" ">>)

clean_text(strText) ==
  LET s1 == ReplaceFullStopTags(strText, 1)
      s2 == ReplaceAll(objTags, s1, <<>>)
      s3 == ReplaceAll(re_Separators, s2, <<" ">>)
      s4 == ReplaceAll(re_Terminators, s3, <<".">>)
      s5 == TrimAndCollapse(s4) \o <<".">>
      s6 == ReplaceAll(re_NewLines, s5, <<" ">>)
      s7 == ReplaceAll(re_DuplicateTerminators, s6, <<".">>)
      s8 == TrimAndCollapse(ReplaceAll(re_PadTerminators, s7, <<".", " ">>))
      s9 == ReplaceAll(re_MultipleSpaces, s8, <<" ">>)
  IN toLowerCase(s9)


(***************************************************************************)
(* syllable_count: the pattern tables.                                     *)
(***************************************************************************)
Vowels == {"a", "e", "i", "o", "u", "y"}

\* Array of problem words (with word as key, syllable count as value).
arrProblemWords ==
  << [word |-> <<"s","i","m","i","l","e">>, count |-> 3],
     [word |-> <<"f","o","r","e","v","e","r">>, count |-> 3],
     [word |-> <<"s","h","o","r","e","l","i","n","e">>, count |-> 2] >>

\* These syllables would be counted as two but should be one.
arrSubSyllables ==
  << Str(<<"c","i","a","l">>),                                   \* /cial/g
     Str(<<"t","i","a">>),                                       \* /tia/g
     Str(<<"c","i","u","s">>),                                   \* /cius/g
     Str(<<"c","i","o","u","s">>),                               \* /cious/g
     Str(<<"g","i","u">>),                                       \* /giu/g
     Str(<<"i","o","n">>),                                       \* /ion/g
     Str(<<"i","o","u">>),                                       \* /iou/g
     Cat(<<Str(<<"s","i","a">>), Eol>>),                         \* /sia$/g
     Cat(<<Rep(NotIn({"a","e","i","u","o","y","t"}), 2, -1),
           Str(<<"e","d">>), Eol>>),                  \* /[^aeiuoyt]{2,}ed$/g
     Cat(<<AnyChar, Str(<<"e","l","y">>), Eol>>),                \* /.ely$/g
     Cat(<<In({"c","g"}), Opt(Ch("h")), Ch("e"),
           Opt(In({"r","s","d"})), Eol>>),                \* /[cg]h?e[rsd]?$/g
     Cat(<<Str(<<"r","v","e">>), Opt(Ch("d")), Eol>>),           \* /rved?$/g
     Cat(<<In(Vowels), In({"d","t"}), Ch("e"),
           Opt(Ch("s")), Eol>>),                          \* /[aeiouy][dt]es?$/g
     Cat(<<In(Vowels), NotIn(Vowels \cup {"d","t"}), Ch("e"),
           Opt(In({"r","s","d"})), Eol>>),    \* /[aeiouy][^aeiouydt]e[rsd]?$/g
     Cat(<<Bol, In({"d","r"}), Ch("e"), In({"a","e","i","o","u"}),
           Plus(NotIn({"a","e","i","o","u"})), Eol>>), \* /^[dr]e[aeiou][^aeiou]+$/g
     Cat(<<In(Vowels), Str(<<"r","s","e">>), Eol>>)              \* /[aeiouy]rse$/g
  >>

\* These syllables would be counted as one but should be two.
arrAddSyllables ==
  << Str(<<"i","a">>),                                           \* /ia/g
     Str(<<"r","i","e","t">>),                                   \* /riet/g
     Str(<<"d","i","e","n">>),                                   \* /dien/g
     Str(<<"i","u">>),                                           \* /iu/g
     Str(<<"i","o">>),                                           \* /io/g
     Str(<<"i","i">>),                                           \* /ii/g
     Cat(<<In(Vowels \cup {"m"}), Str(<<"b","l">>), Eol>>),      \* /[aeiouym]bl$/g
     Rep(In({"a","e","i","o","u"}), 3, 3),                       \* /[aeiou]{3}/g
     Cat(<<Bol, Str(<<"m","c">>)>>),                             \* /^mc/g
     Cat(<<Str(<<"i","s","m">>), Eol>>),                         \* /ism$/g
     Cat(<<Twice(NotIn(Vowels)), Ch("l"), Eol>>),                \* /([^aeiouy])\1l$/g
     Cat(<<NotIn({"l"}), Str(<<"l","i","e","n">>)>>),            \* /[^l]lien/g
     Cat(<<Bol, Str(<<"c","o","a">>), In({"d","g","l","x"}),
           AnyChar>>),                                           \* /^coa[dglx]./g
     Cat(<<NotIn({"g","q"}), Str(<<"u","a">>),
           NotIn({"a","u","i","e","o"})>>),                      \* /[^gq]ua[^auieo]/g
     Cat(<<Str(<<"d","n","t">>), Eol>>),                         \* /dnt$/g
     Cat(<<Str(<<"u","i","t","y">>), Eol>>),                     \* /uity$/g
     Cat(<<Str(<<"i","e">>),
           Alt(<<Ch("r"), Str(<<"s","t">>)>>), Eol>>)            \* /ie(r|st)$/g
  >>

\* Single syllable prefixes and suffixes.
arrPrefixSuffix ==
  << [re |-> Cat(<<Bol, Str(<<"u","n">>)>>), global |-> FALSE],          \* /^un/
     [re |-> Cat(<<Bol, Str(<<"f","o","r","e">>)>>), global |-> TRUE],   \* /^fore/g
     [re |-> Cat(<<Str(<<"l","y">>), Eol>>), global |-> TRUE],           \* /ly$/g
     [re |-> Cat(<<Str(<<"l","e","s","s">>), Eol>>), global |-> TRUE],   \* /less$/g
     [re |-> Cat(<<Str(<<"f","u","l">>), Eol>>), global |-> TRUE],       \* /ful$/g
     [re |-> Cat(<<Str(<<"e","r">>), Opt(Ch("s")), Eol>>),
      global |-> TRUE],                                                  \* /ers?$/g
     [re |-> Cat(<<Str(<<"i","n","g">>), Opt(Ch("s")), Eol>>),
      global |-> TRUE]                                                   \* /ings?$/g
  >>

\* /[^a-z]/g
re_NonWordCharacters == NotIn(LowerSet)

\* /[^aeiouy]+/g
re_NonVowels == Plus(NotIn(Vowels))


(***************************************************************************)
(* syllable_count: the computation.                                        *)
(***************************************************************************)
\* String.prototype.replace(/r/, rep) without the g flag: the first match.
ReplaceFirst(r, s, rep) ==
  LET hits == {i \in 1..(Len(s) + 1) : MatchEnd(r, s, i) # 0} IN
  IF hits = {} THEN s
  ELSE LET i == CHOOSE h \in hits : \A j \in hits : h <= j
           e == MatchEnd(r, s, i)
       IN SubSeq(s, 1, i - 1) \o rep \o SubSeq(s, e, Len(s))

\* String.prototype.split(/r/g): p is where the current piece starts, q the
\* position the separator is looked for.
RECURSIVE SplitFrom(_, _, _, _)
SplitFrom(r, s, p, q) ==
  IF q > Len(s) THEN << SubSeq(s, p, Len(s)) >>
  ELSE LET e == MatchEnd(r, s, q) IN
       IF e = 0 \/ e = p THEN SplitFrom(r, s, p, q + 1)
       ELSE << SubSeq(s, p, q - 1) >> \o SplitFrom(r, s, e, e)

Split(r, s) ==
  IF s = <<>> THEN (IF MatchEnd(r, s, 1) # 0 THEN <<>> ELSE << <<>> >>)
  ELSE SplitFrom(r, s, 1, 1)

\* arrProblemWords[strWord]: the mapped count, or 0 (falsy) for a word that
\* is no key of the table.
ProblemWordLookup(strWord) ==
  LET hits == {k \in 1..Len(arrProblemWords) : arrProblemWords[k].word = strWord}
  IN IF hits = {} THEN 0 ELSE arrProblemWords[CHOOSE k \in hits : TRUE].count

\* The word looked up in the casing the caller gave it.
KeepCase(strWord) == strWord

\* The word syllable_count looks up and works on: strWord.toLowerCase().
LookupKey(strWord) == toLowerCase(strWord)

\* Remove prefixes and suffixes and count how many were taken: the for-in
\* loop over arrPrefixSuffix from entry k on; n affixes were taken so far.
RECURSIVE StripAffixes(_, _, _)
StripAffixes(strWord, n, k) ==
  IF k > Len(arrPrefixSuffix) THEN [word |-> strWord, count |-> n]
  ELSE LET a == arrPrefixSuffix[k] IN
       IF Test(a.re, strWord)
       THEN StripAffixes(IF a.global THEN ReplaceAll(a.re, strWord, <<>>)
                         ELSE ReplaceFirst(a.re, strWord, <<>>),
                         n + 1, k + 1)
       ELSE StripAffixes(strWord, n, k + 1)

\* The number of non-empty parts of arrWordParts.
WordPartCount(strWord) ==
  LET arrWordParts == Split(re_NonVowels, strWord) IN
  Cardinality({k \in 1..Len(arrWordParts) : arrWordParts[k] # <<>>})

\* How many regular expressions of the table match the word.
MatchCount(table, strWord) ==
  Cardinality({k \in 1..Len(table) : Test(table[k], strWord)})

\* if( intSyllableCount == 0 ) intSyllableCount = 1
ClampSyllables(n) == IF n = 0 THEN 1 ELSE n

\* The count the pattern rules give a lowercased word: everything of
\* syllable_count after the lookup in arrProblemWords.
PatternRuleCount(strWord) ==
  LET stripped == StripAffixes(strWord, 0, 1)
      letters  == ReplaceAll(re_NonWordCharacters, stripped.word, <<>>)
  IN ClampSyllables(WordPartCount(letters) + stripped.count
                    - MatchCount(arrSubSyllables, letters)
                    + MatchCount(arrAddSyllables, letters))

syllable_count(strWord) ==
  LET key == LookupKey(strWord) IN
  IF ProblemWordLookup(key) # 0 THEN ProblemWordLookup(key)
  ELSE PatternRuleCount(key)


(***************************************************************************)
(* The counters.                                                           *)
(***************************************************************************)
\* String.prototype.split(' '): the pieces between the spaces of s, from
\* position i on; cur is the piece collected so far.
RECURSIVE SplitOnSpace(_, _, _)
SplitOnSpace(s, i, cur) ==
  IF i > Len(s) THEN <<cur>>
  ELSE IF s[i] = " " THEN <<cur>> \o SplitOnSpace(s, i + 1, <<>>)
  ELSE SplitOnSpace(s, i + 1, Append(cur, s[i]))

\* strText.match(/[\.!?]/g): the matched characters; the empty sequence
\* stands for null, which match returns when nothing matches.
MatchTerminators(s) == SelectSeq(s, LAMBDA c : c \in {".", "!", "?"})

\* strText.replace(/[^ ]/g, '')
OnlySpaces(s) == ReplaceAll(NotIn({" "}), s, <<>>)

\* text_length
text_length(strText) == Len(strText)

\* A word count that forgets the first word.
SpaceCount(strText) == text_length(OnlySpaces(strText))

\* 1 + this.text_length(strText.replace(/[^ ]/g, '')): space count + 1 is
\* word count.
SpaceCountPlusOne(strText) == 1 + text_length(OnlySpaces(strText))

\* word_count
word_count(strText) == SpaceCountPlusOne(clean_text(strText))

\* sentence_count: intSentences.length; reading the length of null throws,
\* which the action SentenceCount reports in the variable error.
sentence_count(strText) == Len(MatchTerminators(clean_text(strText)))

\* letter_count
letter_count(strText) ==
  Len(ReplaceAll(Plus(NotIn(LowerSet \cup UpperSet)), clean_text(strText), <<>>))


(***************************************************************************)
(* The state.  The functions of TextStatistics declare none of their       *)
(* variables, so every counter and loop index below is a property of the   *)
(* global object, shared by all calls; only the parameters (strText,       *)
(* strWord, blnCountProperNouns) live in the frame of a call.              *)
(***************************************************************************)
VARIABLES
  called,               \* the public function the client called, or "none"
  argText,              \* the text the client passes
  argWord,              \* the word the client passes to syllable_count
  argFlag,              \* the blnCountProperNouns the client passes
  stack,                \* the frames of the running calls, innermost last
  retval,               \* the value the last call returned
  error,                \* the exception that ended the call, or "none"
  intSentenceCount,     \* global
  intWordCount,         \* global
  intWords,             \* global: word_count's result, and the loop index
  arrWords,             \* global
  intSyllableCount,     \* global: an accumulator and syllable_count's counter
  intPrefixSuffixCount, \* global
  intWordPartCount,     \* global
  intLongWordCount      \* global

globals == <<intSentenceCount, intWordCount, intWords, arrWords,
             intSyllableCount, intPrefixSuffixCount, intWordPartCount,
             intLongWordCount>>

client == <<called, argText, argWord, argFlag>>

vars == <<called, argText, argWord, argFlag, stack, retval, error,
          intSentenceCount, intWordCount, intWords, arrWords,
          intSyllableCount, intPrefixSuffixCount, intWordPartCount,
          intLongWordCount>>

\* The value of a global that was never assigned.
Undefined == "undefined"

\* The frame of a call: the function, where it is, its parameters, the
\* value an expression holds while a call it contains runs (tmp), and the
\* position of its for-in loop (it).
Frame(fn, strText, strWord, flag) ==
  [fn |-> fn, pc |-> "enter", strText |-> strText, strWord |-> strWord,
   blnCountProperNouns |-> flag, tmp |-> 0, it |-> 0]

Top == stack[Len(stack)]

At(fn, pc) == stack # <<>> /\ Top.fn = fn /\ Top.pc = pc

\* The running function goes on as the frame f.
Continue(f) == stack' = [stack EXCEPT ![Len(stack)] = f]

\* The running function, left as the frame f, calls another one.
Call(f, callee) == stack' = Append([stack EXCEPT ![Len(stack)] = f], callee)

\* The running function returns v.
Return(v) ==
  /\ stack' = SubSeq(stack, 1, Len(stack) - 1)
  /\ retval' = v

\* The call the client made has returned.
Done == called # "none" /\ stack = <<>>

(***************************************************************************)
(* Quotients are kept exact, as <<numerator, denominator>>.                *)
(***************************************************************************)
Quotient(a, b) == <<a, b>>

\* (x + y) * 0.4
GunningFog(x, y) == <<2 * (x[1] * y[2] + y[1] * x[2]), 5 * (x[2] * y[2])>>


(***************************************************************************)
(* word_count and sentence_count.                                          *)
(***************************************************************************)
\* strText = this.clean_text(strText)
WC_Clean ==
  /\ At("word_count", "enter")
  /\ Continue([Top EXCEPT !.pc = "count", !.strText = clean_text(Top.strText)])
  /\ UNCHANGED <<client, retval, error, globals>>

\* intWords = 1 + this.text_length(strText.replace(/[^ ]/g, '')); return intWords
WC_Count ==
  /\ At("word_count", "count")
  /\ intWords' = SpaceCountPlusOne(Top.strText)
  /\ Return(intWords')
  /\ UNCHANGED <<client, error, intSentenceCount, intWordCount, arrWords,
                 intSyllableCount, intPrefixSuffixCount, intWordPartCount,
                 intLongWordCount>>

\* strText = this.clean_text(strText)
SC_Clean ==
  /\ At("sentence_count", "enter")
  /\ Continue([Top EXCEPT !.pc = "match", !.strText = clean_text(Top.strText)])
  /\ UNCHANGED <<client, retval, error, globals>>

\* intSentences = strText.match(/[\.!?]/g); return intSentences.length
\* (match gives null when there is no terminator, and null.length throws).
SC_Match ==
  /\ At("sentence_count", "match")
  /\ LET intSentences == MatchTerminators(Top.strText) IN
     IF intSentences = <<>>
     THEN /\ error' = "TypeError"
          /\ stack' = <<>>
          /\ UNCHANGED retval
     ELSE /\ Return(Len(intSentences))
          /\ UNCHANGED error
  /\ UNCHANGED <<client, globals>>

(***************************************************************************)
(* average_words_per_sentence.                                             *)
(***************************************************************************)
\* strText = this.clean_text(strText); this.sentence_count(strText) is called
AWPS_Enter ==
  /\ At("average_words_per_sentence", "enter")
  /\ LET strText == clean_text(Top.strText) IN
     Call([Top EXCEPT !.pc = "sentences", !.strText = strText],
          Frame("sentence_count", strText, <<>>, TRUE))
  /\ UNCHANGED <<client, retval, error, globals>>

\* intSentenceCount = (the value returned); this.word_count(strText) is called
AWPS_Sentences ==
  /\ At("average_words_per_sentence", "sentences")
  /\ intSentenceCount' = retval
  /\ Call([Top EXCEPT !.pc = "words"],
          Frame("word_count", Top.strText, <<>>, TRUE))
  /\ UNCHANGED <<client, retval, error, intWordCount, intWords, arrWords,
                 intSyllableCount, intPrefixSuffixCount, intWordPartCount,
                 intLongWordCount>>

\* intWordCount = (the value returned); return (intWordCount / intSentenceCount)
AWPS_Words ==
  /\ At("average_words_per_sentence", "words")
  /\ intWordCount' = retval
  /\ Return(Quotient(intWordCount', intSentenceCount))
  /\ UNCHANGED <<client, error, intSentenceCount, intWords, arrWords,
                 intSyllableCount, intPrefixSuffixCount, intWordPartCount,
                 intLongWordCount>>

(***************************************************************************)
(* The client's calls of the text functions.                               *)
(***************************************************************************)
Idle == called = "none" /\ stack = <<>>

\* TextStatistics.clean_text(argText)
Call_clean_text ==
  /\ Idle
  /\ called' = "clean_text"
  /\ retval' = clean_text(argText)
  /\ UNCHANGED <<argText, argWord, argFlag, stack, error, globals>>

\* TextStatistics.word_count(argText)
Call_word_count ==
  /\ Idle
  /\ called' = "word_count"
  /\ stack' = <<Frame("word_count", argText, <<>>, TRUE)>>
  /\ UNCHANGED <<argText, argWord, argFlag, retval, error, globals>>

\* TextStatistics.sentence_count(argText)
Call_sentence_count ==
  /\ Idle
  /\ called' = "sentence_count"
  /\ stack' = <<Frame("sentence_count", argText, <<>>, TRUE)>>
  /\ UNCHANGED <<argText, argWord, argFlag, retval, error, globals>>

\* TextStatistics.average_words_per_sentence(argText)
Call_average_words_per_sentence ==
  /\ Idle
  /\ called' = "average_words_per_sentence"
  /\ stack' = <<Frame("average_words_per_sentence", argText, <<>>, TRUE)>>
  /\ UNCHANGED <<argText, argWord, argFlag, retval, error, globals>>

(***************************************************************************)
(* The texts the client passes.                                            *)
(***************************************************************************)
MaxPieces == 3
MaxBlocks == 3

\* The pieces a text is made of: letters in both cases, white space,
\* terminators, a separator, stray angle brackets and a closing block tag.
Pieces ==
  { <<"a">>, <<"B">>, <<" ">>, <<"\n">>, <<"\r", "\n">>, <<".">>, <<"!">>, <<",">>,
    <<"<">>, <<">">>, <<"<", "/", "p", ">">> }

SeqsUpTo(S, n) == UNION {[1..k -> S] : k \in 0..n}

TextInputs == {Concat(ps) : ps \in SeqsUpTo(Pieces, MaxPieces)}

\* The words inside the blocks.
BlockWords == { <<"a">>, <<"b">> }

\* "<tag>w</tag>" for each word w of ws, one after the other.
RECURSIVE BlockText(_, _)
BlockText(tag, ws) ==
  IF ws = <<>> THEN <<>>
  ELSE <<"<">> \o tag \o <<">">> \o Head(ws) \o <<"<", "/">> \o tag \o <<">">>
       \o BlockText(tag, Tail(ws))

BlockInputs ==
  {BlockText(arrFullStopTags[t], ws) :
     t \in 1..Len(arrFullStopTags),
     ws \in (SeqsUpTo(BlockWords, MaxBlocks) \ {<<>>})}

InitState ==
  /\ called = "none"
  /\ stack = <<>>
  /\ retval = Undefined
  /\ error = "none"
  /\ intSentenceCount = Undefined
  /\ intWordCount = Undefined
  /\ intWords = Undefined
  /\ arrWords = Undefined
  /\ intSyllableCount = Undefined
  /\ intPrefixSuffixCount = Undefined
  /\ intWordPartCount = Undefined
  /\ intLongWordCount = Undefined

Init ==
  /\ InitState
  /\ argText \in TextInputs \cup BlockInputs
  /\ argWord = <<>>
  /\ argFlag = TRUE

Next ==
  \/ Call_clean_text
  \/ Call_word_count
  \/ Call_sentence_count
  \/ Call_average_words_per_sentence
  \/ WC_Clean
  \/ WC_Count
  \/ SC_Clean
  \/ SC_Match
  \/ AWPS_Enter
  \/ AWPS_Sentences
  \/ AWPS_Words

Spec == Init /\ [][Next]_vars


(***************************************************************************)
(* Properties of clean_text and of the counters, under Spec.               *)
(***************************************************************************)
IsBlank(s) == \A k \in 1..Len(s) : s[k] \in WhiteSpace

\* C1: clean_text is idempotent.  Every function that calls word_count or
\* sentence_count passes them the text it has cleaned, and they clean it
\* again: the text the callee gets from clean_text is the text the caller
\* got from it.
C1_CleanTextIdempotent ==
  \A k \in 2..Len(stack) :
    (stack[k].fn \in {"word_count", "sentence_count"} /\ stack[k].pc # "enter")
      => stack[k].strText = stack[k - 1].strText

\* A text with a leading terminator, an upper-case letter and a line break
\* was cleaned by average_words_per_sentence and again by sentence_count.
C1_Witness ==
  /\ argText = <<".", "B", "\n">>
  /\ Len(stack) = 2
  /\ At("sentence_count", "match")
  /\ Top.strText = <<".", " ", "b", ".">>
  /\ stack[1].strText = <<".", " ", "b", ".">>

\* C3: word_count and sentence_count return at least 1 for every text, so
\* the divisor of average_words_per_sentence is not zero and no call throws;
\* for an empty or blank text clean_text returns "." and both counts are 1.
C3_CountsPositive ==
  /\ error = "none"
  /\ (Done /\ called \in {"word_count", "sentence_count"}) => retval >= 1
  /\ At("average_words_per_sentence", "words") => intSentenceCount >= 1
  /\ (Done /\ called = "average_words_per_sentence") =>
       /\ intWordCount >= 1 /\ intSentenceCount >= 1
       /\ retval = <<intWordCount, intSentenceCount>>
  /\ (Done /\ IsBlank(argText)) =>
       CASE called = "clean_text" -> retval = <<".">>
         [] called \in {"word_count", "sentence_count"} -> retval = 1
         [] called = "average_words_per_sentence" -> retval = <<1, 1>>

\* The counts of the empty text and of a blank one were returned.
C3_Witness ==
  /\ Done
  /\ argText \in {<<>>, <<" ", "\n">>}
  /\ called \in {"word_count", "sentence_count"}
  /\ retval = 1

\* The text "<tag>w1</tag>...<tag>wk</tag>" cleaned as the claim C5 says:
\* a terminator after each word.
RECURSIVE TerminatedWords(_)
TerminatedWords(ws) ==
  IF ws = <<>> THEN <<>>
  ELSE Head(ws) \o <<".">> \o (IF Len(ws) = 1 THEN <<>> ELSE <<" ">>)
       \o TerminatedWords(Tail(ws))

\* C5: every closing block-level tag becomes a terminator: k blocks
\* "<tag>w</tag>" clean to k terminated words and count as k sentences.
C5_EveryClosingTagTerminates ==
  \A t \in 1..Len(arrFullStopTags) :
    \A ws \in (SeqsUpTo(BlockWords, MaxBlocks) \ {<<>>}) :
      (Done /\ argText = BlockText(arrFullStopTags[t], ws)) =>
        /\ called = "clean_text" => retval = TerminatedWords(ws)
        /\ called = "sentence_count" => retval = Len(ws)

\* The letter-only words and the white space runs of the claim C6.
LetterWords == { <<"a">>, <<"B">> }
WhiteSpaceRuns ==
  {Concat(ps) : ps \in (SeqsUpTo({ <<" ">>, <<"\n">>, <<"\r", "\n">> },
                                 MaxPieces - 2) \ {<<>>})}

\* C6: a run of white space between two words becomes one space: the words
\* are not merged.
C6_WhiteSpaceRunIsOneSpace ==
  \A u \in LetterWords, v \in LetterWords, run \in WhiteSpaceRuns :
    (Done /\ argText = u \o run \o v) =>
      /\ called = "clean_text" =>
           retval = toLowerCase(u) \o <<" ">> \o toLowerCase(v) \o <<".">>
      /\ called = "word_count" => retval = 2

\* The shape of a cleaned text.
Canonical(s) ==
  /\ s # <<>>
  /\ s[1] \notin WhiteSpace
  /\ s[Len(s)] = "."
  /\ \A k \in 1..(Len(s) - 1) : ~(s[k] = " " /\ s[k + 1] = " ")
  /\ \A k \in 1..(Len(s) - 1) : ~(s[k] = "." /\ s[k + 1] = ".")
  /\ \A k \in 1..Len(s) :
       s[k] = "." =>
         /\ k = 1 \/ s[k - 1] \notin WhiteSpace
         /\ k = Len(s) \/ s[k + 1] = " "
  /\ \A k \in 1..Len(s) :
       s[k] \notin ({",", ":", ";", "(", ")", "-", "!", "?"} \cup UpperSet)

\* C7: what clean_text returns has the canonical shape.
C7_CleanTextCanonical ==
  (Done /\ called = "clean_text") => Canonical(retval)

\* A text with an upper-case letter, a separator, padded and doubled
\* terminators was cleaned.
C7_Witness ==
  /\ Done
  /\ called = "clean_text"
  /\ argText = <<"B", ",", "!">>
  /\ retval = <<"b", ".">>


(***************************************************************************)
(* syllable_count, step by step.                                           *)
(***************************************************************************)
\* intSyllableCount = 0; intPrefixSuffixCount = 0;
\* strWord = strWord.toLowerCase()
S_Enter ==
  /\ At("syllable_count", "enter")
  /\ intSyllableCount' = 0
  /\ intPrefixSuffixCount' = 0
  /\ Continue([Top EXCEPT !.pc = "lookup", !.strWord = LookupKey(Top.strWord)])
  /\ UNCHANGED <<client, retval, error, intSentenceCount, intWordCount,
                 intWords, arrWords, intWordPartCount, intLongWordCount>>

\* if( arrProblemWords[strWord] ) return arrProblemWords[strWord]
S_LookupHit ==
  /\ At("syllable_count", "lookup")
  /\ ProblemWordLookup(Top.strWord) # 0
  /\ Return(ProblemWordLookup(Top.strWord))
  /\ UNCHANGED <<client, error, globals>>

S_LookupMiss ==
  /\ At("syllable_count", "lookup")
  /\ ProblemWordLookup(Top.strWord) = 0
  /\ Continue([Top EXCEPT !.pc = "affixes"])
  /\ UNCHANGED <<client, retval, error, globals>>

\* Remove prefixes and suffixes and count how many were taken.
S_StripAffixes ==
  /\ At("syllable_count", "affixes")
  /\ LET stripped == StripAffixes(Top.strWord, intPrefixSuffixCount, 1) IN
     /\ intPrefixSuffixCount' = stripped.count
     /\ Continue([Top EXCEPT !.pc = "parts", !.strWord = stripped.word])
  /\ UNCHANGED <<client, retval, error, intSentenceCount, intWordCount,
                 intWords, arrWords, intSyllableCount, intWordPartCount,
                 intLongWordCount>>

\* strWord = strWord.replace(/[^a-z]/g, ''); the word parts are counted;
\* intSyllableCount = intWordPartCount + intPrefixSuffixCount
S_WordParts ==
  /\ At("syllable_count", "parts")
  /\ LET letters == ReplaceAll(re_NonWordCharacters, Top.strWord, <<>>) IN
     /\ intWordPartCount' = WordPartCount(letters)
     /\ intSyllableCount' = intWordPartCount' + intPrefixSuffixCount
     /\ Continue([Top EXCEPT !.pc = "sub", !.strWord = letters])
  /\ UNCHANGED <<client, retval, error, intSentenceCount, intWordCount,
                 intWords, arrWords, intPrefixSuffixCount, intLongWordCount>>

\* for( intSubSyllables in arrSubSyllables ) ... intSyllableCount--
S_Sub ==
  /\ At("syllable_count", "sub")
  /\ intSyllableCount' = intSyllableCount - MatchCount(arrSubSyllables, Top.strWord)
  /\ Continue([Top EXCEPT !.pc = "add"])
  /\ UNCHANGED <<client, retval, error, intSentenceCount, intWordCount,
                 intWords, arrWords, intPrefixSuffixCount, intWordPartCount,
                 intLongWordCount>>

\* for( intAddSyllables in arrAddSyllables ) ... intSyllableCount++
S_Add ==
  /\ At("syllable_count", "add")
  /\ intSyllableCount' = intSyllableCount + MatchCount(arrAddSyllables, Top.strWord)
  /\ Continue([Top EXCEPT !.pc = "clamp"])
  /\ UNCHANGED <<client, retval, error, intSentenceCount, intWordCount,
                 intWords, arrWords, intPrefixSuffixCount, intWordPartCount,
                 intLongWordCount>>

\* if( intSyllableCount == 0 ) intSyllableCount = 1; return intSyllableCount
S_Clamp ==
  /\ At("syllable_count", "clamp")
  /\ intSyllableCount' = ClampSyllables(intSyllableCount)
  /\ Return(intSyllableCount')
  /\ UNCHANGED <<client, error, intSentenceCount, intWordCount, intWords,
                 arrWords, intPrefixSuffixCount, intWordPartCount,
                 intLongWordCount>>

\* TextStatistics.syllable_count(argWord)
Call_syllable_count ==
  /\ Idle
  /\ called' = "syllable_count"
  /\ stack' = <<Frame("syllable_count", <<>>, argWord, TRUE)>>
  /\ UNCHANGED <<argText, argWord, argFlag, retval, error, globals>>

(***************************************************************************)
(* The words the client passes to syllable_count.                          *)
(***************************************************************************)
MaxWordLen == 4

\* The word w with the letters at the positions of S in upper case.
Cased(w, S) == [k \in 1..Len(w) |-> IF k \in S THEN ToUpperChar(w[k]) ELSE w[k]]

\* The problem words in every letter casing.
ProblemWordCasings ==
  UNION {{Cased(arrProblemWords[p].word, S) :
            S \in SUBSET (1..Len(arrProblemWords[p].word))} :
         p \in 1..Len(arrProblemWords)}

SampleWords ==
  { <<"l","i","o","n">>, <<"L","i","o","n">>, <<"n","a","t","i","o","n">>,
    <<"c","h","a","n","g","e","d">>, <<"u","n","f","a","i","r","l","y">>,
    <<"f","o","r","e","v","e","r",".">>, <<"1","2">> }

WordLetters == {"a", "i", "e", "d", "r", "v"}

WordInputs ==
  ProblemWordCasings \cup SampleWords \cup SeqsUpTo(WordLetters, MaxWordLen)

InitSyllable ==
  /\ InitState
  /\ argText = <<>>
  /\ argWord \in WordInputs
  /\ argFlag = TRUE

NextSyllable ==
  \/ Call_syllable_count
  \/ S_Enter
  \/ S_LookupHit
  \/ S_LookupMiss
  \/ S_StripAffixes
  \/ S_WordParts
  \/ S_Sub
  \/ S_Add
  \/ S_Clamp

SpecSyllable == InitSyllable /\ [][NextSyllable]_vars

(***************************************************************************)
(* Properties of syllable_count, under SpecSyllable.                       *)
(***************************************************************************)
\* C2: syllable_count returns at least 1 for every non-empty word.
C2_AtLeastOneSyllable ==
  (Done /\ called = "syllable_count" /\ argWord # <<>>) => retval >= 1

\* C4: syllable_count("lion") returns 2.
C4_LionHasTwoSyllables ==
  (Done /\ called = "syllable_count" /\ argWord = <<"l","i","o","n">>)
    => retval = 2

\* C8: syllable_count returns 3 for "simile", 3 for "forever" and 2 for
\* "shoreline" in any letter casing, and returns from the lookup: no affix
\* is stripped and no pattern applied (the call never gets past the lookup,
\* and the counters are as syllable_count set them on entry).
C8_ProblemWordsOverride ==
  LET key == toLowerCase(argWord) IN
  (called = "syllable_count" /\ ProblemWordLookup(key) # 0) =>
    /\ stack # <<>> => Top.pc \in {"enter", "lookup"}
    /\ Done =>
         /\ key = <<"s","i","m","i","l","e">> => retval = 3
         /\ key = <<"f","o","r","e","v","e","r">> => retval = 3
         /\ key = <<"s","h","o","r","e","l","i","n","e">> => retval = 2
         /\ intPrefixSuffixCount = 0
         /\ intSyllableCount = 0

\* "ShoreLine" returned 2, where the pattern rules give 3.
C8_Witness ==
  /\ Done
  /\ called = "syllable_count"
  /\ argWord = <<"S","h","o","r","e","L","i","n","e">>
  /\ retval = 2
  /\ PatternRuleCount(toLowerCase(argWord)) = 3


(***************************************************************************)
(* average_syllables_per_word.                                             *)
(***************************************************************************)
\* The accumulator read after the call instead of before it.
AssignAfterCall(before, now, rval) == now + rval

\* intSyllableCount += this.syllable_count(...): the value of the left side
\* is read before the call (before), not after it (now); rval is what the
\* call returned.
CompoundAssign(before, now, rval) == before + rval

\* strText = this.clean_text(strText); intSyllableCount = 0;
\* this.word_count(strText) is called
ASPW_Enter ==
  /\ At("average_syllables_per_word", "enter")
  /\ intSyllableCount' = 0
  /\ LET strText == clean_text(Top.strText) IN
     Call([Top EXCEPT !.pc = "words", !.strText = strText],
          Frame("word_count", strText, <<>>, TRUE))
  /\ UNCHANGED <<client, retval, error, intSentenceCount, intWordCount,
                 intWords, arrWords, intPrefixSuffixCount, intWordPartCount,
                 intLongWordCount>>

\* intWordCount = (the value returned); arrWords = strText.split(' ')
ASPW_Words ==
  /\ At("average_syllables_per_word", "words")
  /\ intWordCount' = retval
  /\ arrWords' = SplitOnSpace(Top.strText, 1, <<>>)
  /\ Continue([Top EXCEPT !.pc = "loop", !.it = 0])
  /\ UNCHANGED <<client, retval, error, intSentenceCount, intWords,
                 intSyllableCount, intPrefixSuffixCount, intWordPartCount,
                 intLongWordCount>>

\* for ( intWords in arrWords ): the next index; the left side of += is
\* read, and this.syllable_count(arrWords[intWords]) is called
ASPW_Next ==
  /\ At("average_syllables_per_word", "loop")
  /\ Top.it < Len(arrWords)
  /\ intWords' = Top.it
  /\ Call([Top EXCEPT !.pc = "add", !.it = Top.it + 1, !.tmp = intSyllableCount],
          Frame("syllable_count", <<>>, arrWords[Top.it + 1], TRUE))
  /\ UNCHANGED <<client, retval, error, intSentenceCount, intWordCount,
                 arrWords, intSyllableCount, intPrefixSuffixCount,
                 intWordPartCount, intLongWordCount>>

\* intSyllableCount += (the value returned)
ASPW_Add ==
  /\ At("average_syllables_per_word", "add")
  /\ intSyllableCount' = CompoundAssign(Top.tmp, intSyllableCount, retval)
  /\ Continue([Top EXCEPT !.pc = "loop"])
  /\ UNCHANGED <<client, retval, error, intSentenceCount, intWordCount,
                 intWords, arrWords, intPrefixSuffixCount, intWordPartCount,
                 intLongWordCount>>

\* return (intSyllableCount / intWordCount)
ASPW_Return ==
  /\ At("average_syllables_per_word", "loop")
  /\ Top.it = Len(arrWords)
  /\ Return(Quotient(intSyllableCount, intWordCount))
  /\ UNCHANGED <<client, error, globals>>

(***************************************************************************)
(* words_with_three_syllables and percentage_words_with_three_syllables.   *)
(***************************************************************************)
\* The flag left as the caller passed it.
PassedFlag(blnCountProperNouns) == blnCountProperNouns

\* words_with_three_syllables: blnCountProperNouns = true
ForceCountProperNouns(blnCountProperNouns) == TRUE

\* percentage_words_with_three_syllables: blnCountProperNouns = true
ForcePercentageCountProperNouns(blnCountProperNouns) == TRUE

\* strFirstLetter = strWord.substring(0, 1);
\* strFirstLetter !== strFirstLetter.toUpperCase()
FirstLetterIsLowerCase(strWord) ==
  LET strFirstLetter == SubSeq(strWord, 1, 1) IN
  strFirstLetter # toUpperCase(strFirstLetter)

\* blnCountProperNouns = true; strText = this.clean_text(strText);
\* intLongWordCount = 0; this.word_count(strText) is called
WWTS_Enter ==
  /\ At("words_with_three_syllables", "enter")
  /\ intLongWordCount' = 0
  /\ LET strText == clean_text(Top.strText) IN
     Call([Top EXCEPT !.pc = "words", !.strText = strText,
                      !.blnCountProperNouns =
                         ForceCountProperNouns(Top.blnCountProperNouns)],
          Frame("word_count", strText, <<>>, TRUE))
  /\ UNCHANGED <<client, retval, error, intSentenceCount, intWordCount,
                 intWords, arrWords, intSyllableCount, intPrefixSuffixCount,
                 intWordPartCount>>

\* intWordCount = (the value returned); arrWords = strText.split(' ')
WWTS_Words ==
  /\ At("words_with_three_syllables", "words")
  /\ intWordCount' = retval
  /\ arrWords' = SplitOnSpace(Top.strText, 1, <<>>)
  /\ Continue([Top EXCEPT !.pc = "loop", !.it = 0])
  /\ UNCHANGED <<client, retval, error, intSentenceCount, intWords,
                 intSyllableCount, intPrefixSuffixCount, intWordPartCount,
                 intLongWordCount>>

\* for ( intWords in arrWords ): the next index;
\* this.syllable_count(arrWords[intWords]) is called
WWTS_Next ==
  /\ At("words_with_three_syllables", "loop")
  /\ Top.it < Len(arrWords)
  /\ intWords' = Top.it
  /\ Call([Top EXCEPT !.pc = "test", !.it = Top.it + 1],
          Frame("syllable_count", <<>>, arrWords[Top.it + 1], TRUE))
  /\ UNCHANGED <<client, retval, error, intSentenceCount, intWordCount,
                 arrWords, intSyllableCount, intPrefixSuffixCount,
                 intWordPartCount, intLongWordCount>>

\* if ( (the value returned) > 2 ) { if (blnCountProperNouns)
\* intLongWordCount++; else ... the first letter is looked at }
WWTS_Test ==
  /\ At("words_with_three_syllables", "test")
  /\ intLongWordCount' =
       IF retval > 2
          /\ (Top.blnCountProperNouns
              \/ FirstLetterIsLowerCase(arrWords[intWords + 1]))
       THEN intLongWordCount + 1
       ELSE intLongWordCount
  /\ Continue([Top EXCEPT !.pc = "loop"])
  /\ UNCHANGED <<client, retval, error, intSentenceCount, intWordCount,
                 intWords, arrWords, intSyllableCount, intPrefixSuffixCount,
                 intWordPartCount>>

\* return (intLongWordCount)
WWTS_Return ==
  /\ At("words_with_three_syllables", "loop")
  /\ Top.it = Len(arrWords)
  /\ Return(intLongWordCount)
  /\ UNCHANGED <<client, error, globals>>

\* blnCountProperNouns = true; strText = this.clean_text(strText);
\* this.word_count(strText) is called
PCT_Enter ==
  /\ At("percentage_words_with_three_syllables", "enter")
  /\ LET strText == clean_text(Top.strText) IN
     Call([Top EXCEPT !.pc = "words", !.strText = strText,
                      !.blnCountProperNouns =
                         ForcePercentageCountProperNouns(Top.blnCountProperNouns)],
          Frame("word_count", strText, <<>>, TRUE))
  /\ UNCHANGED <<client, retval, error, globals>>

\* intWordCount = (the value returned);
\* this.words_with_three_syllables(strText, blnCountProperNouns) is called
PCT_Words ==
  /\ At("percentage_words_with_three_syllables", "words")
  /\ intWordCount' = retval
  /\ Call([Top EXCEPT !.pc = "long"],
          Frame("words_with_three_syllables", Top.strText, <<>>,
                Top.blnCountProperNouns))
  /\ UNCHANGED <<client, retval, error, intSentenceCount, intWords, arrWords,
                 intSyllableCount, intPrefixSuffixCount, intWordPartCount,
                 intLongWordCount>>

\* intLongWordCount = (the value returned);
\* intPercentage = ((intLongWordCount / intWordCount) * 100); return it
PCT_Long ==
  /\ At("percentage_words_with_three_syllables", "long")
  /\ intLongWordCount' = retval
  /\ Return(Quotient(intLongWordCount' * 100, intWordCount))
  /\ UNCHANGED <<client, error, intSentenceCount, intWordCount, intWords,
                 arrWords, intSyllableCount, intPrefixSuffixCount,
                 intWordPartCount>>

(***************************************************************************)
(* gunning_fog_score.                                                      *)
(***************************************************************************)
\* strText = this.clean_text(strText);
\* this.average_words_per_sentence(strText) is called
GF_Enter ==
  /\ At("gunning_fog_score", "enter")
  /\ LET strText == clean_text(Top.strText) IN
     Call([Top EXCEPT !.pc = "average", !.strText = strText],
          Frame("average_words_per_sentence", strText, <<>>, TRUE))
  /\ UNCHANGED <<client, retval, error, globals>>

\* this.percentage_words_with_three_syllables(strText, false) is called
GF_Average ==
  /\ At("gunning_fog_score", "average")
  /\ Call([Top EXCEPT !.pc = "percentage", !.tmp = retval],
          Frame("percentage_words_with_three_syllables", Top.strText, <<>>,
                FALSE))
  /\ UNCHANGED <<client, retval, error, globals>>

\* return ((average + percentage) * 0.4)
GF_Percentage ==
  /\ At("gunning_fog_score", "percentage")
  /\ Return(GunningFog(Top.tmp, retval))
  /\ UNCHANGED <<client, error, globals>>

(***************************************************************************)
(* The client's calls of the syllable statistics.                          *)
(***************************************************************************)
\* TextStatistics.average_syllables_per_word(argText)
Call_average_syllables_per_word ==
  /\ Idle
  /\ called' = "average_syllables_per_word"
  /\ stack' = <<Frame("average_syllables_per_word", argText, <<>>, TRUE)>>
  /\ UNCHANGED <<argText, argWord, argFlag, retval, error, globals>>

\* TextStatistics.words_with_three_syllables(argText, b)
Call_words_with_three_syllables ==
  /\ Idle
  /\ \E b \in BOOLEAN :
       /\ argFlag' = b
       /\ stack' = <<Frame("words_with_three_syllables", argText, <<>>, b)>>
  /\ called' = "words_with_three_syllables"
  /\ UNCHANGED <<argText, argWord, retval, error, globals>>

\* TextStatistics.percentage_words_with_three_syllables(argText, b)
Call_percentage_words_with_three_syllables ==
  /\ Idle
  /\ \E b \in BOOLEAN :
       /\ argFlag' = b
       /\ stack' = <<Frame("percentage_words_with_three_syllables", argText,
                           <<>>, b)>>
  /\ called' = "percentage_words_with_three_syllables"
  /\ UNCHANGED <<argText, argWord, retval, error, globals>>

\* TextStatistics.gunning_fog_score(argText)
Call_gunning_fog_score ==
  /\ Idle
  /\ called' = "gunning_fog_score"
  /\ stack' = <<Frame("gunning_fog_score", argText, <<>>, TRUE)>>
  /\ UNCHANGED <<argText, argWord, argFlag, retval, error, globals>>

(***************************************************************************)
(* The texts the client passes to the syllable statistics.                 *)
(***************************************************************************)
MaxWords == 3

\* A one-syllable word, a capitalised three-syllable word, a three-syllable
\* word after a quotation mark, and a problem word.
Tokens ==
  { <<"a">>, <<"R","a","d","i","o">>, <<"'","r","a","d","i","o">>,
    <<"s","i","m","i","l","e">> }

\* The words of ws with a space between them.
RECURSIVE JoinWords(_)
JoinWords(ws) ==
  IF ws = <<>> THEN <<>>
  ELSE IF Len(ws) = 1 THEN Head(ws)
  ELSE Head(ws) \o <<" ">> \o JoinWords(Tail(ws))

SentenceInputs == {JoinWords(ws) : ws \in SeqsUpTo(Tokens, MaxWords)}

InitAverage ==
  /\ InitState
  /\ argText \in SentenceInputs
  /\ argWord = <<>>
  /\ argFlag = TRUE

NextAverage ==
  \/ Call_average_syllables_per_word
  \/ Call_words_with_three_syllables
  \/ Call_percentage_words_with_three_syllables
  \/ Call_gunning_fog_score
  \/ ASPW_Enter
  \/ ASPW_Words
  \/ ASPW_Next
  \/ ASPW_Add
  \/ ASPW_Return
  \/ WWTS_Enter
  \/ WWTS_Words
  \/ WWTS_Next
  \/ WWTS_Test
  \/ WWTS_Return
  \/ PCT_Enter
  \/ PCT_Words
  \/ PCT_Long
  \/ GF_Enter
  \/ GF_Average
  \/ GF_Percentage
  \/ AWPS_Enter
  \/ AWPS_Sentences
  \/ AWPS_Words
  \/ WC_Clean
  \/ WC_Count
  \/ SC_Clean
  \/ SC_Match
  \/ S_Enter
  \/ S_LookupHit
  \/ S_LookupMiss
  \/ S_StripAffixes
  \/ S_WordParts
  \/ S_Sub
  \/ S_Add
  \/ S_Clamp

SpecAverage == InitAverage /\ [][NextAverage]_vars


(***************************************************************************)
(* Claims about the syllable statistics, checked under SpecAverage.        *)
(***************************************************************************)
\* The sum of syllable_count over the first n words of ws.
RECURSIVE SumSyllables(_, _)
SumSyllables(ws, n) ==
  IF n = 0 THEN 0 ELSE SumSyllables(ws, n - 1) + syllable_count(ws[n])

\* The number of space-separated tokens of the normalized text whose
\* syllable_count exceeds 2.
LongWords(strText) ==
  LET ws == SplitOnSpace(clean_text(strText), 1, <<>>) IN
  Cardinality({i \in 1..Len(ws) : syllable_count(ws[i]) > 2})

\* C10: in average_syllables_per_word the running total after the i-th
\* token is the sum of syllable_count over the tokens 1..i, although
\* syllable_count resets and overwrites the same global intSyllableCount;
\* intWordCount, arrWords and the loop index intWords are as the caller
\* left them while and after syllable_count runs; and the value returned is
\* the sum over all tokens of the normalized text divided by word_count.
C10_RunningTotalIsSum ==
  called = "average_syllables_per_word" =>
    LET ws == SplitOnSpace(clean_text(argText), 1, <<>>) IN
    /\ (stack # <<>> /\ stack[1].pc \in {"loop", "add"}) =>
         /\ arrWords = ws
         /\ intWordCount = Len(ws)
         /\ stack[1].pc = "loop" =>
              intSyllableCount = SumSyllables(ws, stack[1].it)
         /\ stack[1].pc = "add" =>
              /\ intWords = stack[1].it - 1
              /\ stack[1].tmp = SumSyllables(ws, stack[1].it - 1)
    /\ Done =>
         /\ error = "none"
         /\ retval = Quotient(SumSyllables(ws, Len(ws)), word_count(argText))

\* "simile Radio a": 3 + 3 + 1 syllables over 3 words, where the last call
\* of syllable_count left 1 in intSyllableCount before the caller's addition.
C10_Witness ==
  /\ Done
  /\ called = "average_syllables_per_word"
  /\ argText = JoinWords(<< <<"s","i","m","i","l","e">>,
                            <<"R","a","d","i","o">>, <<"a">> >>)
  /\ retval = <<7, 3>>
  /\ syllable_count(<<"a">>) = 1

=============================================================================
